---- MODULE Spec2Model ----
(***************************************************************************)
(* The filter-topology engine of simulator.py: FilterBlock, FilterTopology *)
(* and the block handlers of main().                                       *)
(*                                                                         *)
(* Python objects live in a heap: `heap` maps the address of every live    *)
(* FilterBlock to its fields, and the lists (topology.blocks,              *)
(* block.sub_blocks) hold addresses, as Python lists hold references.      *)
(* block_id is "block_<address>" as in __post_init__.                      *)
(***************************************************************************)
EXTENDS Integers, Sequences, FiniteSets, TLC

VARIABLES
    heap,           \* address -> FilterBlock fields, for every live block
    blocks,         \* FilterTopology.blocks: sequence of addresses
    next_node,      \* FilterTopology.next_node
    netlist,        \* the text last returned by generate_netlist (<<>>: none yet)
    block_counter,  \* st.session_state.block_counter
    pc,             \* "idle": waiting for the user; "rerun": st.rerun() pending
    last            \* the last call made and its arguments

vars == <<heap, blocks, next_node, netlist, block_counter, pc, last>>

----------------------------------------------------------------------------
(* Bounds of the model *)

MaxObjects == 3     \* Spec: live blocks plus components of the topology
TreeBlocks == 4     \* SpecTree: live blocks
TreePos == 0        \* SpecTree: new blocks get a position in 0..TreePos
NetBlocks == 3      \* SpecNet: live blocks
NetComps == 2       \* SpecNet: components of the topology
MaxComps == 3       \* SpecComp: components of the block
UIObjects == 2      \* SpecUI: live blocks plus components of the topology

----------------------------------------------------------------------------
(* Data *)

\* COMPONENTS: the kinds in dict order, each with its unit list
KindOrder == <<"C", "L", "R", "G">>

Kinds == {KindOrder[i] : i \in 1..Len(KindOrder)}

COMPONENTS ==
    [C |-> <<"pF", "nF", "µF", "mF">>,
     L |-> <<"nH", "µH", "mH", "H">>,
     R |-> <<"Ω", "kΩ", "MΩ">>,
     G |-> <<"-">>]

\* parent_id: Optional[str] = None
None == "None"

\* create_default_topologies: FilterTopology('Custom')
TopologyName == "Custom"

\* f"block_{id(self)}"
block_id_of(a) == "block_" \o ToString(a)

\* Component(component_type, value, unit): node1 = node2 = 0
Component(type, value, unit) ==
    [type |-> type, value |-> value, unit |-> unit, node1 |-> 0, node2 |-> 0]

\* FilterBlock(name, position) at address a, after __post_init__
FilterBlock(name, position, a) ==
    [name |-> name, position |-> position, parent_id |-> None,
     block_id |-> block_id_of(a),
     components |-> [k \in Kinds |-> <<>>],
     sub_blocks |-> <<>>, start_node |-> 0, end_node |-> 0]

----------------------------------------------------------------------------
(* Python list helpers *)

\* list.pop(i) on a 0-based index; a negative index counts from the end
ListPop(s, i) ==
    LET j == IF i < 0 THEN i + Len(s) ELSE i
    IN  IF j < 0 \/ j >= Len(s) THEN s
        ELSE [k \in 1..(Len(s) - 1) |-> IF k <= j THEN s[k] ELSE s[k + 1]]

\* [b for b in lst if b.block_id != block_id]
FilterOut(h, lst, id) == SelectSeq(lst, LAMBDA a : h[a].block_id # id)

\* one step of a stable sort: x goes after every element whose position is <= its own
InsertByPosition(h, sorted, x) ==
    LET n == Cardinality({i \in 1..Len(sorted) : h[sorted[i]].position <= h[x].position})
    IN  SubSeq(sorted, 1, n) \o <<x>> \o SubSeq(sorted, n + 1, Len(sorted))

RECURSIVE SortFrom(_, _, _)
SortFrom(h, done, rest) ==
    IF rest = <<>> THEN done
    ELSE SortFrom(h, InsertByPosition(h, done, Head(rest)), Tail(rest))

\* lst.sort(key=lambda x: x.position): stable, ascending
SortByPosition(h, lst) == SortFrom(h, <<>>, lst)

\* for idx, block in enumerate(lst): block.position = idx
Renumber(h, lst) ==
    [a \in DOMAIN h |->
        IF \E i \in 1..Len(lst) : lst[i] = a
        THEN [h[a] EXCEPT !.position =
                (CHOOSE i \in 1..Len(lst) :
                    lst[i] = a /\ \A j \in 1..Len(lst) : lst[j] = a => j <= i) - 1]
        ELSE h[a]]

----------------------------------------------------------------------------
(* FilterBlock methods *)

add_component(b, component_type, value, unit) ==
    IF component_type \in DOMAIN b.components
    THEN [b EXCEPT !.components[component_type] =
            Append(@, Component(component_type, value, unit))]
    ELSE b

remove_component_unchecked(b, component_type, index) ==
    IF component_type \in DOMAIN b.components
       /\ index < Len(b.components[component_type])
    THEN [b EXCEPT !.components[component_type] = ListPop(@, index)]
    ELSE b

remove_component(b, component_type, index) ==
    IF component_type \in DOMAIN b.components
       /\ 0 <= index /\ index < Len(b.components[component_type])
    THEN [b EXCEPT !.components[component_type] = ListPop(@, index)]
    ELSE b

add_sub_block_unsorted(h, p, c) ==
    [h EXCEPT ![c].parent_id = h[p].block_id,
              ![p].sub_blocks = Append(@, c)]

add_sub_block_twice(h, p, c) ==
    LET h1 == [h EXCEPT ![c].parent_id = h[p].block_id]
        h2 == [h1 EXCEPT ![p].sub_blocks = Append(Append(@, c), c)]
    IN  [h2 EXCEPT ![p].sub_blocks = SortByPosition(h2, @)]

\* p.add_sub_block(c), both in the heap h
add_sub_block(h, p, c) ==
    LET h1 == [h EXCEPT ![c].parent_id = h[p].block_id]
        h2 == [h1 EXCEPT ![p].sub_blocks = Append(@, c)]
    IN  [h2 EXCEPT ![p].sub_blocks = SortByPosition(h2, @)]

remove_sub_block_stale(h, p, block_id) ==
    [h EXCEPT ![p].sub_blocks = FilterOut(h, @, block_id)]

\* p.remove_sub_block(block_id)
remove_sub_block(h, p, block_id) ==
    LET kept == FilterOut(h, h[p].sub_blocks, block_id)
        h1 == [h EXCEPT ![p].sub_blocks = kept]
    IN  Renumber(h1, kept)

----------------------------------------------------------------------------
(* FilterTopology methods; each returns the new (heap, blocks) *)

\* topology.add_block(c)
add_block(h, bs, c) ==
    [heap |-> h, blocks |-> SortByPosition(h, Append(bs, c))]

\* topology.remove_block(block_id)
remove_block(h, bs, block_id) ==
    LET kept == FilterOut(h, bs, block_id)
    IN  [heap |-> Renumber(h, kept), blocks |-> kept]

----------------------------------------------------------------------------
(* FilterTopology.generate_netlist *)

StaleNode == next_node

\* self.next_node = 1
InitialNode == 1

\* current_node = 1, the input of the first top-level block
FirstInput == 1

\* f"* Netlist for {self.name}"
HeaderLine(name) == <<"*", "Netlist for", name>>

\* f"V{component_count} {current_node} 0 GND"
GroundLine(count, node) == <<"V", count, node, 0, "GND">>

\* f"{comp.type}{component_count} {parallel_start_node} {next_node} {comp.value}{comp.unit}"
ComponentLine(comp, count, n1, n2) ==
    <<comp.type, count, n1, n2, comp.value, comp.unit>>

AssignNodesAndValue(comp, n1, n2) ==
    [comp EXCEPT !.node1 = n1, !.node2 = n2, !.value = n2]

\* comp.node1 = parallel_start_node; comp.node2 = next_node
AssignNodes(comp, n1, n2) == [comp EXCEPT !.node1 = n1, !.node2 = n2]

\* max(max_parallel_node, next_node)
MaxNode(m, n) == IF n > m THEN n ELSE m

CountNonGround(comp_type, count) == IF comp_type = "G" THEN count ELSE count + 1

\* component_count += 1, once per component of any kind
NextCount(comp_type, count) == count + 1

ReturnEndNode(end_node, current_node) == end_node

\* return current_node, at the end of process_block
BlockOutput(end_node, current_node) == current_node

\* block.components.items(), then each list in order: <<kind, index>> pairs
RECURSIVE ItemsFrom(_, _)
ItemsFrom(b, k) ==
    IF k > Len(KindOrder) THEN <<>>
    ELSE [i \in 1..Len(b.components[KindOrder[k]]) |-> <<KindOrder[k], i>>]
         \o ItemsFrom(b, k + 1)

Items(b) == ItemsFrom(b, 1)

\* The loop over the components of block a. st is the state of the
\* compilation: heap, next_node, component_count and the lines so far.
RECURSIVE ProcessComponents(_, _, _, _, _)
ProcessComponents(st, a, items, input_node, max_parallel_node) ==
    IF items = <<>> THEN [st |-> st, max |-> max_parallel_node]
    ELSE
        LET comp_type == Head(items)[1]
            i == Head(items)[2]
            comp == st.heap[a].components[comp_type][i]
        IN  IF comp_type = "G"
            THEN ProcessComponents(
                    [st EXCEPT !.lines = Append(@, GroundLine(st.count, input_node)),
                               !.count = NextCount(comp_type, @)],
                    a, Tail(items), input_node, max_parallel_node)
            ELSE
                LET nn == st.next_node
                IN  ProcessComponents(
                        [st EXCEPT
                            !.next_node = nn + 1,
                            !.heap[a].components[comp_type][i] =
                                AssignNodes(comp, input_node, nn),
                            !.lines = Append(@, ComponentLine(comp, st.count, input_node, nn)),
                            !.count = NextCount(comp_type, @)],
                        a, Tail(items), input_node, MaxNode(max_parallel_node, nn))

RECURSIVE process_block(_, _, _)
RECURSIVE ProcessBlocks(_, _, _)

\* for b in lst: current_node = process_block(b, current_node)
ProcessBlocks(st, lst, current_node) ==
    IF lst = <<>> THEN [st |-> st, out |-> current_node]
    ELSE LET r == process_block(st, Head(lst), current_node)
         IN  ProcessBlocks(r.st, Tail(lst), r.out)

process_block(st, a, input_node) ==
    LET s1 == [st EXCEPT !.heap[a].start_node = input_node]
        pc1 == ProcessComponents(s1, a, Items(s1.heap[a]), input_node, input_node)
        s2 == [pc1.st EXCEPT !.heap[a].end_node = pc1.max]
        sub == ProcessBlocks(s2, s2.heap[a].sub_blocks, pc1.max)
    IN  [st |-> sub.st, out |-> BlockOutput(pc1.max, sub.out)]

\* topology.generate_netlist(): the new heap and next_node, and the text returned
generate_netlist(h, bs, name) ==
    LET st0 == [heap |-> h, next_node |-> InitialNode, count |-> 1,
                lines |-> <<HeaderLine(name)>>]
        r == ProcessBlocks(st0, bs, FirstInput)
    IN  [heap |-> r.st.heap, next_node |-> r.st.next_node, text |-> r.st.lines]

----------------------------------------------------------------------------
(* The heap: which blocks are live *)

RECURSIVE Descendants(_, _)
\* a and every block below it
Descendants(h, a) ==
    {a} \cup UNION {Descendants(h, h[a].sub_blocks[i]) : i \in 1..Len(h[a].sub_blocks)}

Reachable(h, bs) == UNION {Descendants(h, bs[i]) : i \in 1..Len(bs)}

\* A block no list refers to any more is freed (reference counting)
Collect(h, bs) == [a \in Reachable(h, bs) |-> h[a]]

\* id(self) of a new object: any address no live object occupies
FreeAddresses(h, max) == (1..max) \ DOMAIN h

CompCount(h) ==
    LET n[S \in SUBSET DOMAIN h] ==
            IF S = {} THEN 0
            ELSE LET a == CHOOSE x \in S : TRUE
                 IN  Len(Items(h[a])) + n[S \ {a}]
    IN  n[DOMAIN h]

LiveIds(h) == {h[a].block_id : a \in DOMAIN h}

\* the position of each block of a list
PositionsOf(h, lst) == [i \in 1..Len(lst) |-> h[lst[i]].position]

----------------------------------------------------------------------------
(* Calls of the methods, on a topology that owns its blocks: every block   *)
(* handed to add_block or add_sub_block is a new FilterBlock, as at every  *)
(* call site of the repository.                                            *)

\* st.number_input values and the first unit of the kind's selectbox
Values == {100, 200}

UnitChoices(k) == IF k \in DOMAIN COMPONENTS THEN {COMPONENTS[k][1]} ELSE {"-"}

\* a kind that is not a key of COMPONENTS
UnknownKind == "X"

\* a block id no live block has
AbsentId == block_id_of(0)

\* new_block = FilterBlock(name, position), at address a
Allocate(h, a, name, position) == (a :> FilterBlock(name, position, a)) @@ h

\* blocks plus components
Objects(h) == Cardinality(DOMAIN h) + CompCount(h)

\* last: the method called, and how the call went where a claim tells cases apart
Called(op) == [op |-> op]

add_block_step(a, p) ==
    LET r == add_block(Allocate(heap, a, "Block", p), blocks, a)
    IN  /\ heap' = r.heap
        /\ blocks' = r.blocks
        /\ last' = [op |-> "add_block", moved |-> r.blocks[Len(r.blocks)] # a]
        /\ netlist' = <<>>
        /\ UNCHANGED <<next_node, block_counter, pc>>

add_block_call(max, positions) ==
    \E a \in FreeAddresses(heap, max), p \in positions : add_block_step(a, p)

add_sub_block_step(parent, a, p) ==
    LET h == add_sub_block(Allocate(heap, a, "Block", p), parent, a)
    IN  /\ heap' = h
        /\ last' = [op |-> "add_sub_block",
                    moved |-> h[parent].sub_blocks[Len(h[parent].sub_blocks)] # a]
        /\ netlist' = <<>>
        /\ UNCHANGED <<blocks, next_node, block_counter, pc>>

add_sub_block_call(max, positions) ==
    \E parent \in DOMAIN heap, a \in FreeAddresses(heap, max), p \in positions :
        add_sub_block_step(parent, a, p)

\* the 1-based places of the blocks with this id in a list
PlacesOf(h, lst, id) == {i \in 1..Len(lst) : h[lst[i]].block_id = id}

remove_block_step(id) ==
    LET r == remove_block(heap, blocks, id)
    IN  /\ heap' = Collect(r.heap, r.blocks)
        /\ blocks' = r.blocks
        /\ last' = [op |-> "remove_block", at |-> PlacesOf(heap, blocks, id),
                    positions |-> PositionsOf(heap, blocks)]
        /\ netlist' = <<>>
        /\ UNCHANGED <<next_node, block_counter, pc>>

remove_block_call ==
    \E id \in LiveIds(heap) \cup {AbsentId} : remove_block_step(id)

remove_sub_block_step(parent, id) ==
    /\ heap' = Collect(remove_sub_block(heap, parent, id), blocks)
    /\ last' = [op |-> "remove_sub_block", parent |-> parent,
                at |-> PlacesOf(heap, heap[parent].sub_blocks, id),
                positions |-> PositionsOf(heap, heap[parent].sub_blocks)]
    /\ netlist' = <<>>
    /\ UNCHANGED <<blocks, next_node, block_counter, pc>>

remove_sub_block_call ==
    \E parent \in DOMAIN heap, id \in LiveIds(heap) \cup {AbsentId} :
        remove_sub_block_step(parent, id)

add_component_step(a, k, v, u) ==
    /\ heap' = [heap EXCEPT ![a] = add_component(@, k, v, u)]
    /\ last' = Called("add_component")
    /\ netlist' = <<>>
    /\ UNCHANGED <<blocks, next_node, block_counter, pc>>

add_component_call(kinds, values) ==
    \E a \in DOMAIN heap, k \in kinds, v \in values :
        \E u \in UnitChoices(k) : add_component_step(a, k, v, u)

InBounds(b, k, i) == k \in DOMAIN b.components /\ 0 <= i /\ i < Len(b.components[k])

remove_component_step(a, k, i) ==
    /\ heap' = [heap EXCEPT ![a] = remove_component(@, k, i)]
    /\ last' = [op |-> "remove_component", known |-> k \in Kinds,
                in_bounds |-> InBounds(heap[a], k, i)]
    /\ netlist' = <<>>
    /\ UNCHANGED <<blocks, next_node, block_counter, pc>>

remove_component_call(kinds, indices) ==
    \E a \in DOMAIN heap, k \in kinds, i \in indices : remove_component_step(a, k, i)

generate_netlist_call ==
    /\ LET r == generate_netlist(heap, blocks, TopologyName)
       IN  /\ heap' = r.heap
           /\ next_node' = r.next_node
           /\ netlist' = r.text
    /\ last' = [op |-> "generate_netlist", again |-> last.op = "generate_netlist"]
    /\ UNCHANGED <<blocks, block_counter, pc>>

\* FilterTopology('Custom'), a new session
Init ==
    /\ heap = <<>>
    /\ blocks = <<>>
    /\ next_node = 1
    /\ netlist = <<>>
    /\ block_counter = 0
    /\ pc = "idle"
    /\ last = Called("init")

----------------------------------------------------------------------------
(* Spec: any sequence of method calls on one topology *)

Next ==
    \/ Objects(heap) < MaxObjects /\ add_block_call(MaxObjects, {0})
    \/ Objects(heap) < MaxObjects /\ add_sub_block_call(MaxObjects, {0})
    \/ remove_block_call
    \/ remove_sub_block_call
    \/ Objects(heap) < MaxObjects /\ add_component_call(Kinds \cup {UnknownKind}, Values)
    \/ remove_component_call(Kinds \cup {UnknownKind}, (-1)..MaxObjects)
    \/ generate_netlist_call

Spec == Init /\ [][Next]_vars

----------------------------------------------------------------------------
(* SpecTree: any sequence of the block methods, blocks without components *)

NextTree ==
    \/ Cardinality(DOMAIN heap) < TreeBlocks /\ add_block_call(TreeBlocks, 0..TreePos)
    \/ Cardinality(DOMAIN heap) < TreeBlocks /\ add_sub_block_call(TreeBlocks, 0..TreePos)
    \/ remove_block_call
    \/ remove_sub_block_call

SpecTree == Init /\ [][NextTree]_vars

----------------------------------------------------------------------------
(* SpecNet: a topology is built by any sequence of the mutating calls and  *)
(* then compiled, once or several times                                    *)

Building == last.op # "generate_netlist"

NextNet ==
    \/ Building /\ Cardinality(DOMAIN heap) < NetBlocks /\ add_block_call(NetBlocks, {0})
    \/ Building /\ Cardinality(DOMAIN heap) < NetBlocks
                /\ add_sub_block_call(NetBlocks, {0})
    \/ Building /\ remove_block_call
    \/ Building /\ remove_sub_block_call
    \/ Building /\ CompCount(heap) < NetComps /\ add_component_call(Kinds, {100})
    \/ Building /\ remove_component_call(Kinds, 0..(NetComps - 1))
    \/ generate_netlist_call

SpecNet == Init /\ [][NextNet]_vars

----------------------------------------------------------------------------
(* SpecComp: the component lists of one block *)

NextComp ==
    \/ DOMAIN heap = {} /\ add_block_call(1, {0})
    \/ CompCount(heap) < MaxComps /\ add_component_call(Kinds \cup {UnknownKind}, Values)
    \/ remove_component_call(Kinds \cup {UnknownKind}, (-1)..MaxComps)
    \/ generate_netlist_call

SpecComp == Init /\ [][NextComp]_vars

----------------------------------------------------------------------------
(* SpecUI: the session of main(). Every handler ends in st.rerun(), and    *)
(* the run that follows compiles the netlist when the topology has blocks. *)
(* Text is a sequence of tokens; a block id is one token.                  *)

\* f"{block.name} ({block.block_id})"
Label(b) == b.name \o <<" ", "(", b.block_id, ")">>

\* f"  ↳ {sub_block.name} ({sub_block.block_id})"
SubLabel(b) == <<"  ↳ ">> \o Label(b)

RECURSIVE SplitFrom(_, _, _)
SplitFrom(text, sep, piece) ==
    IF text = <<>> THEN <<piece>>
    ELSE IF Head(text) = sep THEN <<piece>> \o SplitFrom(Tail(text), sep, <<>>)
    ELSE SplitFrom(Tail(text), sep, Append(piece, Head(text)))

\* text.split(sep)
Split(text, sep) == SplitFrom(text, sep, <<>>)

RECURSIVE RStrip(_, _)
\* text.rstrip(ch)
RStrip(text, ch) ==
    IF text # <<>> /\ text[Len(text)] = ch
    THEN RStrip(SubSeq(text, 1, Len(text) - 1), ch)
    ELSE text

\* label.split("(")[1].rstrip(")"); a text of several tokens is no block's id
ParseBlockId(label) ==
    LET t == RStrip(Split(label, "(")[2], ")")
    IN  IF Len(t) = 1 THEN t[1] ELSE AbsentId

\* What the user may type as a block name: a plain name, or one with
\* parentheses of its own around the id of the block at address 1
Names == {<<"Block">>, <<"(", block_id_of(1), "(">>}

\* blocks_to_remove: every top-level block, each followed by its sub-blocks
RECURSIVE RemoveOptions(_, _)
RemoveOptions(h, bs) ==
    IF bs = <<>> THEN <<>>
    ELSE <<Label(h[Head(bs)])>>
         \o [i \in 1..Len(h[Head(bs)].sub_blocks) |->
                SubLabel(h[h[Head(bs)].sub_blocks[i]])]
         \o RemoveOptions(h, Tail(bs))

\* all_blocks: the blocks that get a tab
TabBlocks(h, bs) ==
    {bs[i] : i \in 1..Len(bs)}
    \cup UNION {{h[bs[i]].sub_blocks[j] : j \in 1..Len(h[bs[i]].sub_blocks)} :
                    i \in 1..Len(bs)}

RECURSIVE RemoveFromEach(_, _, _)
\* for block in topology.blocks: block.remove_sub_block(block_id)
RemoveFromEach(h, bs, block_id) ==
    IF bs = <<>> THEN h
    ELSE RemoveFromEach(remove_sub_block(h, Head(bs), block_id), Tail(bs), block_id)

RemoveTopLevelOnly(h, bs, block_id) == remove_block(h, bs, block_id)

\* topology.remove_block(block_id), then remove_sub_block on every block left
RemoveFlow(h, bs, block_id) ==
    LET r == remove_block(h, bs, block_id)
    IN  [heap |-> RemoveFromEach(r.heap, r.blocks, block_id), blocks |-> r.blocks]

\* the "Add Block" branch with a parent chosen: the first top-level block
\* with that id takes the new block; with none, nothing refers to it
AddUnderParent(h, bs, a, parent_id) ==
    LET at == {i \in 1..Len(bs) : h[bs[i]].block_id = parent_id}
    IN  IF at = {} THEN [heap |-> h, blocks |-> bs]
        ELSE LET first == CHOOSE i \in at : \A j \in at : i <= j
             IN  [heap |-> add_sub_block(h, bs[first], a), blocks |-> bs]

\* if st.button("Add Block"): choice 0 is "None", choice i the i-th top-level block
AddBlockHandler ==
    /\ pc = "idle"
    /\ Objects(heap) < UIObjects
    /\ block_counter < UIObjects
    /\ \E name \in Names, a \in FreeAddresses(heap, UIObjects), choice \in 0..Len(blocks) :
        LET h1 == Allocate(heap, a, name, block_counter)
            r == IF choice = 0 THEN add_block(h1, blocks, a)
                 ELSE AddUnderParent(h1, blocks, a,
                                     ParseBlockId(Label(heap[blocks[choice]])))
        IN  /\ heap' = Collect(r.heap, r.blocks)
            /\ blocks' = r.blocks
    /\ block_counter' = block_counter + 1
    /\ pc' = "rerun"
    /\ last' = Called("add_block_handler")
    /\ netlist' = <<>>
    /\ UNCHANGED next_node

\* if st.button("Remove Selected Block")
RemoveBlockHandler ==
    /\ pc = "idle"
    /\ blocks # <<>>
    /\ block_counter > -UIObjects
    /\ LET options == RemoveOptions(heap, blocks)
       IN  \E choice \in 1..Len(options) :
            LET id == ParseBlockId(options[choice])
                r == RemoveFlow(heap, blocks, id)
            IN  /\ heap' = Collect(r.heap, r.blocks)
                /\ blocks' = r.blocks
                /\ last' = [op |-> "remove_block_handler", id |-> id,
                            was_sub |-> \E a \in DOMAIN heap :
                                heap[a].block_id = id /\ heap[a].parent_id # None]
    /\ block_counter' = block_counter - 1
    /\ pc' = "rerun"
    /\ netlist' = <<>>
    /\ UNCHANGED next_node

\* render_block_components: the "Add {kind}" button of a tab
AddComponentHandler ==
    /\ pc = "idle"
    /\ Objects(heap) < UIObjects
    /\ \E a \in TabBlocks(heap, blocks), k \in Kinds, v \in Values :
        \E u \in UnitChoices(k) :
            heap' = [heap EXCEPT ![a] = add_component(@, k, v, u)]
    /\ pc' = "rerun"
    /\ last' = Called("add_component_handler")
    /\ netlist' = <<>>
    /\ UNCHANGED <<blocks, next_node, block_counter>>

\* render_block_components: the "Remove" button beside a component
RemoveComponentHandler ==
    /\ pc = "idle"
    /\ \E a \in TabBlocks(heap, blocks), k \in Kinds :
        \E idx \in 0..(Len(heap[a].components[k]) - 1) :
            heap' = [heap EXCEPT ![a] = remove_component(@, k, idx)]
    /\ pc' = "rerun"
    /\ last' = Called("remove_component_handler")
    /\ netlist' = <<>>
    /\ UNCHANGED <<blocks, next_node, block_counter>>

\* the end of a run of main(): if topology.blocks: netlist = generate_netlist()
Render ==
    IF blocks # <<>>
    THEN LET r == generate_netlist(heap, blocks, TopologyName)
         IN  /\ heap' = r.heap
             /\ next_node' = r.next_node
             /\ netlist' = r.text
             /\ last' = [op |-> "generate_netlist",
                         again |-> last.op = "generate_netlist"]
    ELSE /\ netlist' = <<>>
         /\ last' = Called("render")
         /\ UNCHANGED <<heap, next_node>>

\* a run of main() in which no button is pressed
Rerun ==
    /\ Render
    /\ pc' = "idle"
    /\ UNCHANGED <<blocks, block_counter>>

\* the user comes back to this topology from another one:
\* block_counter = len(topology.blocks), and the run goes on to its end
SelectTopology ==
    /\ pc = "idle"
    /\ block_counter # Len(blocks)
    /\ Render
    /\ block_counter' = Len(blocks)
    /\ UNCHANGED <<blocks, pc>>

NextUI ==
    \/ AddBlockHandler
    \/ RemoveBlockHandler
    \/ AddComponentHandler
    \/ RemoveComponentHandler
    \/ Rerun
    \/ SelectTopology

SpecUI == Init /\ [][NextUI]_vars

----------------------------------------------------------------------------
(* The claims *)

Children(h, a) == {h[a].sub_blocks[i] : i \in 1..Len(h[a].sub_blocks)}

\* the <<kind, index>> of the components of a block that are not Grounds
NonGround(b) ==
    UNION {{<<k, i>> : i \in 1..Len(b.components[k])} : k \in Kinds \ {"G"}}

Compiled == last.op = "generate_netlist"

\* C1: after generate_netlist every non-Ground component has node1 = the start
\* node of its block and a node2 that is new: not the first input node, not its
\* own node1, and not the node2 of any other component.
C1_FreshNode2 ==
    Compiled =>
        \A a \in DOMAIN heap : \A c \in NonGround(heap[a]) :
            LET comp == heap[a].components[c[1]][c[2]]
            IN  /\ comp.node1 = heap[a].start_node
                /\ comp.node2 # FirstInput
                /\ comp.node2 # comp.node1
                /\ \A b \in DOMAIN heap : \A d \in NonGround(heap[b]) :
                    <<a, c>> # <<b, d>> =>
                        heap[b].components[d[1]][d[2]].node2 # comp.node2

\* C2: a call of generate_netlist that follows another one, with no other call
\* in between, returns the text the first one returned.
C2_SameTextAgain ==
    [][(generate_netlist_call /\ last.op = "generate_netlist") => netlist' = netlist]_vars

C2_Witness ==
    /\ Compiled /\ last.again
    /\ Len(netlist) >= 3
    /\ \E a \in DOMAIN heap : NonGround(heap[a]) # {}

\* the blocks of old that survive the removal of id, renumbered from 0 in new
FilteredAndRenumbered(h, old, id, h2, new) ==
    LET kept == {i \in 1..Len(old) : h[old[i]].block_id # id}
        nth(j) == CHOOSE i \in kept : Cardinality({m \in kept : m <= i}) = j
    IN  /\ Len(new) = Cardinality(kept)
        /\ \A j \in 1..Len(new) :
            /\ new[j] = old[nth(j)]
            /\ h2[new[j]].position = j - 1

\* C3: remove_sub_block(parent, X) and remove_block(X) drop exactly the blocks
\* of the list whose block_id is X, keep the others in order, and set their
\* positions to 0..n-1.
C3_RemoveRenumbers ==
    [][/\ \A parent \in DOMAIN heap, id \in LiveIds(heap) \cup {AbsentId} :
            remove_sub_block_step(parent, id) =>
                FilteredAndRenumbered(heap, heap[parent].sub_blocks, id,
                                      heap', heap'[parent].sub_blocks)
       /\ \A id \in LiveIds(heap) \cup {AbsentId} :
            remove_block_step(id) =>
                FilteredAndRenumbered(heap, blocks, id, heap', blocks')]_vars

C3_Witness ==
    /\ last.op = "remove_sub_block"
    /\ last.positions = <<0, 1, 2>>
    /\ last.at = {2}
    /\ last.parent \in DOMAIN heap
    /\ PositionsOf(heap, heap[last.parent].sub_blocks) = <<0, 1>>

SortedByPosition(h, lst) ==
    \A i \in 1..(Len(lst) - 1) : h[lst[i]].position <= h[lst[i + 1]].position

\* C4: the top-level list and every sub_blocks list are sorted by position.
C4_ListsSorted ==
    /\ SortedByPosition(heap, blocks)
    /\ \A a \in DOMAIN heap : SortedByPosition(heap, heap[a].sub_blocks)

C4_Witness ==
    /\ last.op = "add_sub_block"
    /\ last.moved
    /\ \E a \in DOMAIN heap : Len(heap[a].sub_blocks) >= 3

\* the places that hold block a: in the top-level list and in every sub_blocks list
Owners(a) ==
    {<<0, i>> : i \in {j \in 1..Len(blocks) : blocks[j] = a}}
    \cup UNION {{<<p, i>> : i \in {j \in 1..Len(heap[p].sub_blocks) :
                                    heap[p].sub_blocks[j] = a}} : p \in DOMAIN heap}

C6_NothingChanges ==
    [][generate_netlist_call =>
        (heap' = heap /\ blocks' = blocks /\ next_node' = next_node)]_vars

\* a block without the fields the compilation assigns
Structure(b) ==
    [name |-> b.name, position |-> b.position, parent_id |-> b.parent_id,
     block_id |-> b.block_id, sub_blocks |-> b.sub_blocks,
     components |-> [k \in DOMAIN b.components |->
        [i \in 1..Len(b.components[k]) |->
            [type |-> b.components[k][i].type, value |-> b.components[k][i].value,
             unit |-> b.components[k][i].unit]]]]

\* C6 amended: generate_netlist changes only next_node, the start_node and
\* end_node of blocks and the node1 and node2 of components.
C6_OnlyNodeFieldsChange ==
    [][generate_netlist_call =>
        /\ blocks' = blocks
        /\ DOMAIN heap' = DOMAIN heap
        /\ \A a \in DOMAIN heap : Structure(heap'[a]) = Structure(heap[a])]_vars

C6_Witness ==
    /\ Compiled
    /\ next_node > 1
    /\ \E a \in DOMAIN heap : \E c \in NonGround(heap[a]) :
        heap[a].components[c[1]][c[2]].node2 >= 1

\* the effect of remove_component(k, i) on the lists old of a block
RemovedAt(old, new, k, i) ==
    IF k \in Kinds /\ 0 <= i /\ i < Len(old[k])
    THEN /\ Len(new[k]) = Len(old[k]) - 1
         /\ \A j \in 1..Len(new[k]) : new[k][j] = IF j <= i THEN old[k][j] ELSE old[k][j + 1]
         /\ \A o \in Kinds \ {k} : new[o] = old[o]
    ELSE new = old

\* C7: remove_component with an unknown kind or an index outside the list
\* changes nothing; otherwise it removes the component at the index and keeps
\* the others, and the other kinds' lists, as they were.
C7_RemoveComponent ==
    [][\A a \in DOMAIN heap, k \in Kinds \cup {UnknownKind}, i \in (-1)..MaxComps :
        remove_component_step(a, k, i) =>
            /\ RemovedAt(heap[a].components, heap'[a].components, k, i)
            /\ \A b \in DOMAIN heap \ {a} : heap'[b] = heap[b]]_vars

C7_Witness ==
    /\ last.op = "remove_component"
    /\ last.known /\ ~last.in_bounds
    /\ \E a \in DOMAIN heap, k \in Kinds : Len(heap[a].components[k]) >= 2

GroundLines(n) == {k \in 2..Len(netlist) : netlist[k] = GroundLine(k - 1, n)}

GroundsAt(n) ==
    UNION {{<<a, i>> : i \in 1..Len(heap[a].components["G"])} :
            a \in {b \in DOMAIN heap : heap[b].start_node = n}}

AllNonGround == UNION {{<<a, c>> : c \in NonGround(heap[a])} : a \in DOMAIN heap}

\* C8: the text is the header and one line per component of the tree, the k-th
\* of them with index k; an empty topology gives the header alone; a Ground
\* gives a V line at the start node of its block and takes no node.
C8_OneLinePerComponent ==
    Compiled =>
        /\ netlist[1] = HeaderLine(TopologyName)
        /\ Len(netlist) = 1 + CompCount(heap)
        /\ \A k \in 2..Len(netlist) : netlist[k][2] = k - 1
        /\ blocks = <<>> => netlist = <<HeaderLine(TopologyName)>>
        /\ \A n \in 0..next_node :
            Cardinality(GroundLines(n)) = Cardinality(GroundsAt(n))
        /\ \A k \in 2..Len(netlist) :
            netlist[k][1] = "V" => \E n \in 1..next_node : k \in GroundLines(n)
        /\ next_node = 1 + Cardinality(AllNonGround)
        /\ \A x \in AllNonGround :
            LET comp == heap[x[1]].components[x[2][1]][x[2][2]]
            IN  \E k \in 2..Len(netlist) :
                    netlist[k] = <<comp.type, k - 1, comp.node1, comp.node2,
                                   comp.value, comp.unit>>

C8_Witness ==
    /\ Compiled
    /\ Len(netlist) = 3
    /\ \E a \in DOMAIN heap :
        /\ heap[a].parent_id # None
        /\ Len(heap[a].components["G"]) = 1
        /\ NonGround(heap[a]) # {}

\* C9: after the "Remove Selected Block" handler has run for block id X, no
\* block of the topology has id X.
C9_NoReferenceLeft ==
    last.op = "remove_block_handler" => last.id \notin LiveIds(heap)

C9_Witness ==
    /\ last.op = "remove_block_handler"
    /\ last.was_sub
    /\ blocks # <<>>

RECURSIVE OutputNode(_)
\* the node a block hands to the block compiled after it
OutputNode(a) ==
    IF heap[a].sub_blocks = <<>> THEN heap[a].end_node
    ELSE OutputNode(heap[a].sub_blocks[Len(heap[a].sub_blocks)])

ChainedList(lst, first) ==
    \A i \in 1..Len(lst) :
        heap[lst[i]].start_node = IF i = 1 THEN first ELSE OutputNode(lst[i - 1])

\* C10: after generate_netlist the first top-level block starts at node 1; a
\* block ends at the largest node2 of its own non-Ground components, or at its
\* start node without any; its first child starts at its end node; every later
\* child or top-level block starts at the output node of the one before it.
C10_SeriesChain ==
    Compiled =>
        /\ ChainedList(blocks, 1)
        /\ \A a \in DOMAIN heap :
            /\ ChainedList(heap[a].sub_blocks, heap[a].end_node)
            /\ LET n2 == {heap[a].components[c[1]][c[2]].node2 : c \in NonGround(heap[a])}
               IN  heap[a].end_node =
                     IF n2 = {} THEN heap[a].start_node
                     ELSE CHOOSE m \in n2 : \A n \in n2 : n <= m

C10_Witness ==
    /\ Compiled
    /\ Len(blocks) = 2
    /\ heap[blocks[1]].sub_blocks # <<>>
    /\ heap[blocks[2]].start_node # heap[blocks[1]].end_node
    /\ heap[blocks[2]].start_node = 2

====
